---- MODULE Spec2Model ----
(***************************************************************************)
(* A model of plainbox.impl.unit.file: the FileRole symbol definition, the *)
(* FileUnitValidator.explain() override, the FileUnit accessors and the    *)
(* two field validators FileUnit.Meta registers.                           *)
(*                                                                         *)
(* Text is modelled as a sequence of one-character strings, so that string *)
(* comparison, sorting, joining and os.path.splitext are computed the way  *)
(* Python computes them.  Python's None is the sentinel None below, which  *)
(* no text equals.                                                         *)
(***************************************************************************)
EXTENDS Naturals, Sequences, FiniteSets

VARIABLES
    units,      \* unit id -> the record of field values (Unit._data)
    created,    \* the field values each unit was constructed from
    symbols,    \* FileRole.get_all_symbols(): the symbols, in allocation order
    registry,   \* FileUnit.Meta.field_validators: field -> list of validators
    result,     \* what the last sequential operation returned
    callers     \* the position and locals of each concurrent validation

vars == <<units, created, symbols, registry, result, callers>>

-----------------------------------------------------------------------------
(* Bounds *)

\* longest directory/stem part of a path, before its suffix
MaxStemLen == 1

\* number of callers validating the shared units concurrently
NumCallers == 2

-----------------------------------------------------------------------------
(* Values *)

None == <<"None">>

EmptyStr == <<>>

\* Python truthiness of an optional string: None and '' are falsy
Truthy(v) == v # None /\ v # EmptyStr

unit_source ==
    <<"u", "n", "i", "t", "-", "s", "o", "u", "r", "c", "e">>
legacy_whitelist ==
    <<"l", "e", "g", "a", "c", "y", "-", "w", "h", "i", "t", "e", "l", "i", "s", "t">>
script ==
    <<"s", "c", "r", "i", "p", "t">>
binary ==
    <<"b", "i", "n", "a", "r", "y">>
data ==
    <<"d", "a", "t", "a">>
i18n ==
    <<"i", "1", "8", "n">>
manage_py ==
    <<"m", "a", "n", "a", "g", "e", ".", "p", "y">>
legal ==
    <<"l", "e", "g", "a", "l">>
docs ==
    <<"d", "o", "c", "s">>
unknown ==
    <<"u", "n", "k", "n", "o", "w", "n">>
build ==
    <<"b", "u", "i", "l", "d">>
invalid ==
    <<"i", "n", "v", "a", "l", "i", "d">>
vcs ==
    <<"v", "c", "s">>
src ==
    <<"s", "r", "c">>

\* class FileRole with one symbol left out of the definition
FileRoleWithoutSrc ==
    <<unit_source, legacy_whitelist, script, binary, data, i18n, manage_py,
      legal, docs, unknown, build, invalid, vcs>>

\* class FileRole(SymbolDef): the symbols in the order the class body declares them
FileRole ==
    <<unit_source, legacy_whitelist, script, binary, data, i18n, manage_py,
      legal, docs, unknown, build, invalid, vcs, src>>

\* class fields(SymbolDef): path, role, base
fields == <<"path", "role", "base">>

Reverse(s) == [i \in 1..Len(s) |-> s[Len(s) + 1 - i]]

\* The symbol list is built from the class namespace; the order it comes out
\* in is not fixed by the definition, so more than one order is explored.
SymbolOrders == {FileRole, Reverse(FileRole)}

-----------------------------------------------------------------------------
(* Python string comparison, sorted() and str.join() *)

\* ord(c) for the characters that occur in symbol names and messages
Ord(c) ==
    CASE c = " " -> 32 [] c = "," -> 44 [] c = "-" -> 45 [] c = "." -> 46
      [] c = "/" -> 47 [] c = "1" -> 49 [] c = "8" -> 56 [] c = ":" -> 58
      [] c = "a" -> 97 [] c = "b" -> 98 [] c = "c" -> 99 [] c = "d" -> 100
      [] c = "e" -> 101 [] c = "g" -> 103 [] c = "h" -> 104 [] c = "i" -> 105
      [] c = "k" -> 107 [] c = "l" -> 108 [] c = "m" -> 109 [] c = "n" -> 110
      [] c = "o" -> 111 [] c = "p" -> 112 [] c = "r" -> 114 [] c = "s" -> 115
      [] c = "t" -> 116 [] c = "u" -> 117 [] c = "v" -> 118 [] c = "w" -> 119
      [] c = "x" -> 120 [] c = "y" -> 121

\* a < b for strings: at the first differing position the smaller code point
\* wins; a proper prefix is smaller
RECURSIVE StrLess(_, _)
StrLess(a, b) ==
    IF b = <<>> THEN FALSE
    ELSE IF a = <<>> THEN TRUE
    ELSE IF Head(a) = Head(b) THEN StrLess(Tail(a), Tail(b))
    ELSE Ord(Head(a)) < Ord(Head(b))

\* insert x into the ascending list s, after the elements not greater than it
RECURSIVE Insert(_, _)
Insert(x, s) ==
    IF s = <<>> THEN <<x>>
    ELSE IF StrLess(x, Head(s)) THEN <<x>> \o s
    ELSE <<Head(s)>> \o Insert(x, Tail(s))

\* sorted() left out: the symbols as get_all_symbols() returns them
Unsorted(s) == s

\* sorted(s): the elements of s in ascending order (Symbol.__lt__ compares names)
RECURSIVE sorted(_)
sorted(s) ==
    IF s = <<>> THEN <<>> ELSE Insert(Head(s), sorted(Tail(s)))

\* sep.join(parts)
RECURSIVE join(_, _)
join(sep, parts) ==
    IF parts = <<>> THEN <<>>
    ELSE IF Len(parts) = 1 THEN Head(parts)
    ELSE Head(parts) \o sep \o join(sep, Tail(parts))

-----------------------------------------------------------------------------
(* The field values units are constructed from *)

bogus == <<"b", "o", "g", "u", "s">>

manage_script ==
    <<"m", "a", "n", "a", "g", "e", "-", "s", "c", "r", "i", "p", "t">>

PXU == <<".", "p", "x", "u">>

StemChars == {"/", ".", "s"}

RECURSIVE SeqsUpTo(_, _)
SeqsUpTo(S, n) ==
    IF n = 0 THEN {<<>>}
    ELSE LET shorter == SeqsUpTo(S, n - 1)
         IN  shorter \cup {Append(s, c) : s \in shorter, c \in S}

Suffixes ==
    {<<>>, PXU, <<".", "t", "x", "t">>, <<".", "p", "x", "u", ".", "i", "n">>}

\* path strings: directories, hidden files, no / one / several extensions
PathStrings == {stem \o suffix : stem \in SeqsUpTo(StemChars, MaxStemLen), suffix \in Suffixes}

PathValues == PathStrings \cup {None}

\* raw role values: every declared identifier, an unset role, an empty one,
\* and strings that are no identifier of FileRole
RoleValues ==
    {unit_source, legacy_whitelist, script, binary, data, i18n, manage_py,
     legal, docs, unknown, build, invalid, vcs, src,
     None, EmptyStr, bogus, manage_script}

\* the provider sets base to its base directory on every unit it generates
BaseValues == {<<"/">>}

UnitValues == [path : PathValues, role : RoleValues, base : BaseValues]

\* the units the concurrent callers share
SharedUnitValues ==
    [path : {<<"s">> \o PXU, <<"s", ".", "t", "x", "t">>, <<"r", "u", "n">>},
     role : {unit_source, script, bogus},
     base : BaseValues]

-----------------------------------------------------------------------------
(* FileUnit accessors *)

\* Unit.get_record_value(name): the stored value, None when the field is absent
get_record_value(u, name) == u[name]

\* FileUnit.path
path(u) == get_record_value(u, "path")

\* FileUnit.role: a property that also carries the FileRole symbols; the value
\* it returns is the stored one
role(u) == get_record_value(u, "role")

\* getattr(unit, str(field))
getattr(u, name) ==
    IF name = "path" THEN path(u)
    ELSE IF name = "role" THEN role(u)
    ELSE get_record_value(u, name)

\* FileUnit.__str__
str(u) == path(u)

-----------------------------------------------------------------------------
(* os.path.splitext *)

\* p.rfind(c), counting positions from 1; 0 when c does not occur
rfind(p, c) ==
    IF \E i \in 1..Len(p) : p[i] = c
    THEN CHOOSE i \in 1..Len(p) : p[i] = c /\ \A j \in (i + 1)..Len(p) : p[j] # c
    ELSE 0

\* genericpath._splitext(p, '/', None, '.'): the extension starts at the last
\* dot after the last separator, unless only dots precede it in that component
splitext(p) ==
    LET sepIndex == rfind(p, "/")
        dotIndex == rfind(p, ".")
    IN  IF /\ dotIndex > sepIndex
           /\ \E k \in (sepIndex + 1)..(dotIndex - 1) : p[k] # "."
        THEN <<SubSeq(p, 1, dotIndex - 1), SubSeq(p, dotIndex, Len(p))>>
        ELSE <<p, <<>>>>

-----------------------------------------------------------------------------
(* FileUnitValidator.explain and the validators of FileUnit.Meta *)

DefaultKind == "wrong"

DefaultSeverity == "error"

\* Problem kinds explain() is asked about; "unknown-symbol" has no stock message
Kinds == {"wrong", "deprecated", "unknown-symbol"}

\* UnitValidator._explain_map.get(kind)
stock_msg(kind) ==
    CASE kind = "wrong" -> <<"incorrect value supplied">>
      [] kind = "deprecated" -> <<"deprecated field used">>
      [] OTHER -> None

\* UnitValidator.explain, which FileUnitValidator overrides: the message is
\* prefixed with the field
explain_with_field(u, field, kind, message) ==
    IF Truthy(message) \/ Truthy(stock_msg(kind))
    THEN <<"field ", field, ", ">> \o (IF Truthy(message) THEN message ELSE stock_msg(kind))
    ELSE None

\* FileUnitValidator.explain(unit, field, kind, message)
explain(u, field, kind, message) ==
    IF Truthy(message) \/ Truthy(stock_msg(kind))
    THEN (IF Truthy(message) THEN message ELSE stock_msg(kind))
    ELSE None

\* the message of the validator on fields.path, after .format()
ExtMessage ==
    <<"please use .pxu as an extension for all files with plainbox units, see: ",
      "http://plainbox.readthedocs.org/en/latest/author/faq.html#faq-1">>

Prefix ==
    <<"v", "a", "l", "i", "d", " ", "v", "a", "l", "u", "e", "s", " ", "a", "r", "e", ":", " ">>

\* the message of the validator on fields.role:
\* _('valid values are: {}').format(', '.join(str(sym) for sym in sorted(syms)))
RoleMessage(syms) == Prefix \o join(<<",", " ">>, sorted(syms))

\* value in FileRole.get_all_symbols(): Symbol.__eq__ compares the name with
\* a raw string; None equals no symbol
Contains(syms, value) == \E i \in 1..Len(syms) : syms[i] = value

\* the guard applied to every role, whatever it is
ExtOnlyifAlways(u) == TRUE

\* onlyif=lambda unit: unit.role == FileRole.unit_source
ExtOnlyif(u) == role(u) = unit_source

\* os.path.splitext(value) raises TypeError when value is not a string
ExtRaises(value) == value = None

\* the check written as value.endswith('.pxu')
ExtCorrectEndswith(value) ==
    Len(value) >= Len(PXU) /\ SubSeq(value, Len(value) - Len(PXU) + 1, Len(value)) = PXU

\* lambda value: os.path.splitext(value)[1] == '.pxu'
ExtCorrect(value) == splitext(value)[2] = PXU

\* lambda value: value in FileRole.get_all_symbols()
RoleCorrect(syms, value) == Contains(syms, value)

\* field_validators, built when the class body runs
field_validators(syms) ==
    [f \in {"path", "role", "base"} |->
        IF f = "path"
        THEN <<[id |-> "ext", kind |-> "deprecated", severity |-> "advice",
                message |-> ExtMessage, onlyif |-> TRUE]>>
        ELSE IF f = "role"
        THEN <<[id |-> "role", kind |-> DefaultKind, severity |-> DefaultSeverity,
                message |-> RoleMessage(syms), onlyif |-> FALSE]>>
        ELSE <<>>]

-----------------------------------------------------------------------------
(* CorrectFieldValueValidator.check *)

NoIssue ==
    [kind |-> "none", field |-> "", problem |-> "", severity |-> "", message |-> None]

Fault ==
    [kind |-> "fault", field |-> "", problem |-> "", severity |-> "", message |-> None]

Issue(u, field, v) ==
    [kind |-> "issue", field |-> field, problem |-> v.kind, severity |-> v.severity,
     message |-> explain(u, field, v.kind, v.message)]

\* whether the validator's guard lets it run on the unit
Applies(v, u) == ~v.onlyif \/ (v.id = "ext" /\ ExtOnlyif(u))

Raises(v, value) == v.id = "ext" /\ ExtRaises(value)

Correct(v, syms, value) ==
    IF v.id = "ext" THEN ExtCorrect(value) ELSE RoleCorrect(syms, value)

\* the outcome once the guard has let the validator run on value
Judge(v, syms, u, field, value) ==
    IF Raises(v, value) THEN Fault
    ELSE IF Correct(v, syms, value) THEN NoIssue
    ELSE Issue(u, field, v)

\* check(parent, unit, field): nothing when the guard says skip, else the
\* value is looked up and judged
check(v, syms, u, field) ==
    IF ~Applies(v, u) THEN NoIssue
    ELSE Judge(v, syms, u, field, getattr(u, field))

\* the driver: every validator of every field in turn; a fault ends the run
RECURSIVE RunAll(_, _, _, _)
RunAll(todo, reg, syms, u) ==
    IF todo = <<>> THEN <<>>
    ELSE LET f == Head(todo)[1]
             o == check(reg[f][Head(todo)[2]], syms, u, f)
         IN  IF o.kind = "fault" THEN <<o>>
             ELSE (IF o.kind = "issue" THEN <<o>> ELSE <<>>)
                  \o RunAll(Tail(todo), reg, syms, u)

\* the (field, index) pairs of the registry, in field order
RECURSIVE Pairs(_, _)
Pairs(fs, reg) ==
    IF fs = <<>> THEN <<>>
    ELSE [i \in 1..Len(reg[Head(fs)]) |-> <<Head(fs), i>>] \o Pairs(Tail(fs), reg)

-----------------------------------------------------------------------------
(* State: construction *)

Res(op, id, field, kind, message, value) ==
    [op |-> op, unit |-> id, field |-> field, kind |-> kind, message |-> message,
     value |-> value]

NoResult == Res("none", "", "", "", None, None)

Callers == 1..NumCallers

Idle == [pc |-> "idle", unit |-> "", field |-> "", value |-> None, outcome |-> NoIssue]

\* the definitions run once: the symbols are allocated and the registry built
InitDefinitions ==
    /\ symbols \in SymbolOrders
    /\ registry = field_validators(symbols)

\* one unit, any field values; operations on it run one at a time
Init ==
    /\ InitDefinitions
    /\ units \in [{"u1"} -> UnitValues]
    /\ created = units
    /\ result = NoResult
    /\ callers = <<>>

\* two shared units; the callers validate them concurrently
InitPar ==
    /\ InitDefinitions
    /\ units \in [{"u1", "u2"} -> SharedUnitValues]
    /\ created = units
    /\ result = NoResult
    /\ callers = [c \in Callers |-> Idle]

-----------------------------------------------------------------------------
(* Operations, one at a time *)

\* unit.path
ReadPath(id) ==
    /\ result' = Res("path", id, "", "", None, path(units[id]))
    /\ UNCHANGED <<units, created, symbols, registry, callers>>

\* unit.role, with the value read stored back into the record, normalised to
\* a symbol of FileRole
ReadRoleCaching(id) ==
    /\ result' = Res("role", id, "", "", None, role(units[id]))
    /\ units' = [units EXCEPT ![id].role =
                    IF Contains(symbols, @) THEN @ ELSE unknown]
    /\ UNCHANGED <<created, symbols, registry, callers>>

\* unit.role
ReadRole(id) ==
    /\ result' = Res("role", id, "", "", None, role(units[id]))
    /\ UNCHANGED <<units, created, symbols, registry, callers>>

\* str(unit)
Str(id) ==
    /\ result' = Res("str", id, "", "", None, str(units[id]))
    /\ UNCHANGED <<units, created, symbols, registry, callers>>

\* value in FileRole.get_all_symbols(), for any raw value
Member(value) ==
    /\ result' = Res("in", "", "", "", value, Contains(symbols, value))
    /\ UNCHANGED <<units, created, symbols, registry, callers>>

\* validator.explain(unit, field, kind, message)
Explain(id, field, kind, message) ==
    /\ result' = Res("explain", id, field, kind, message,
                     explain(units[id], field, kind, message))
    /\ UNCHANGED <<units, created, symbols, registry, callers>>

\* one validator of the registry checked against the unit
Validate(id, field, i) ==
    /\ result' = Res("check", id, field, registry[field][i].id, None,
                     check(registry[field][i], symbols, units[id], field))
    /\ UNCHANGED <<units, created, symbols, registry, callers>>

\* every validator of every field checked against the unit
ValidateAll(id) ==
    /\ result' = Res("check_all", id, "", "", None,
                     RunAll(Pairs(fields, registry), registry, symbols, units[id]))
    /\ UNCHANGED <<units, created, symbols, registry, callers>>

Messages == {None, EmptyStr, <<"custom message">>}

Next ==
    \/ \E id \in DOMAIN units : ReadPath(id)
    \/ \E id \in DOMAIN units : ReadRole(id)
    \/ \E id \in DOMAIN units : Str(id)
    \/ \E value \in RoleValues : Member(value)
    \/ \E id \in DOMAIN units, i \in 1..Len(fields), kind \in Kinds, message \in Messages :
          Explain(id, fields[i], kind, message)
    \/ \E id \in DOMAIN units, f \in DOMAIN registry :
          \E i \in 1..Len(registry[f]) : Validate(id, f, i)
    \/ \E id \in DOMAIN units : ValidateAll(id)

Spec == Init /\ [][Next]_vars

-----------------------------------------------------------------------------
(* One validation, step by step, by each of several callers *)

\* a caller starts checking the validator of a field against a shared unit
Begin(c, id, field) ==
    /\ callers[c].pc = "idle"
    /\ callers' = [callers EXCEPT ![c] =
                      [pc |-> "onlyif", unit |-> id, field |-> field,
                       value |-> None, outcome |-> NoIssue]]
    /\ UNCHANGED <<units, created, symbols, registry, result>>

\* the guard evaluated, where reading unit.role stores the value back into
\* the shared record, normalised to a symbol of FileRole
OnlyifStepCaching(c) ==
    LET cl == callers[c]
        v == registry[cl.field][1]
        u == units[cl.unit]
    IN  /\ cl.pc = "onlyif"
        /\ callers' = [callers EXCEPT ![c] =
                          IF Applies(v, u) THEN [cl EXCEPT !.pc = "lookup"]
                          ELSE [cl EXCEPT !.pc = "done", !.outcome = NoIssue]]
        /\ units' = IF v.onlyif
                    THEN [units EXCEPT ![cl.unit].role =
                             IF Contains(symbols, @) THEN @ ELSE unknown]
                    ELSE units
        /\ UNCHANGED <<created, symbols, registry, result>>

\* if self.onlyif is not None and not self.onlyif(unit): return
OnlyifStep(c) ==
    LET cl == callers[c]
        v == registry[cl.field][1]
        u == units[cl.unit]
    IN  /\ cl.pc = "onlyif"
        /\ callers' = [callers EXCEPT ![c] =
                          IF Applies(v, u) THEN [cl EXCEPT !.pc = "lookup"]
                          ELSE [cl EXCEPT !.pc = "done", !.outcome = NoIssue]]
        /\ UNCHANGED <<units, created, symbols, registry, result>>

\* value = getattr(unit, str(field))
LookupStep(c) ==
    LET cl == callers[c]
    IN  /\ cl.pc = "lookup"
        /\ callers' = [callers EXCEPT ![c] =
                          [cl EXCEPT !.pc = "correct_fn",
                                     !.value = getattr(units[cl.unit], cl.field)]]
        /\ UNCHANGED <<units, created, symbols, registry, result>>

\* the predicate applied to the value; an issue reported when it is false
CorrectStep(c) ==
    LET cl == callers[c]
        v == registry[cl.field][1]
    IN  /\ cl.pc = "correct_fn"
        /\ callers' = [callers EXCEPT ![c] =
                          [cl EXCEPT !.pc = "done",
                                     !.outcome = Judge(v, symbols, units[cl.unit],
                                                       cl.field, cl.value)]]
        /\ UNCHANGED <<units, created, symbols, registry, result>>

\* the caller takes the outcome and is free for the next validation
Collect(c) ==
    /\ callers[c].pc = "done"
    /\ callers' = [callers EXCEPT ![c] = Idle]
    /\ UNCHANGED <<units, created, symbols, registry, result>>

ValidatedFields == {f \in DOMAIN registry : registry[f] # <<>>}

NextPar ==
    \/ \E c \in Callers, id \in DOMAIN units, f \in ValidatedFields : Begin(c, id, f)
    \/ \E c \in Callers : OnlyifStep(c)
    \/ \E c \in Callers : LookupStep(c)
    \/ \E c \in Callers : CorrectStep(c)
    \/ \E c \in Callers : Collect(c)

SpecPar == InitPar /\ [][NextPar]_vars

-----------------------------------------------------------------------------
(* Properties *)

RoleSet == {symbols[i] : i \in 1..Len(symbols)}

CheckedBy(id) == result.op = "check" /\ result.kind = id

\* the suffix from the last dot of the final path component, '' without one
LastDotSuffix(p) ==
    LET sepIndex == rfind(p, "/")
        dotIndex == rfind(p, ".")
    IN  IF dotIndex > sepIndex THEN SubSeq(p, dotIndex, Len(p)) ELSE <<>>

\* p ends in .pxu and, in the same path component, a character other than a
\* dot comes before that suffix
HasPxuExtension(p) ==
    LET n == Len(p) - Len(PXU)
    IN  /\ n >= 1
        /\ SubSeq(p, n + 1, Len(p)) = PXU
        /\ \E k \in 1..n : p[k] # "." /\ \A j \in k..n : p[j] # "/"

\* C1: the validator on role reports a violation iff the raw role is
\* non-empty and not in the Role symbol set; an unset role is no violation
C1_RoleIssueIffNonEmptyUnknown ==
    CheckedBy("role") =>
        LET r == units[result.unit].role
        IN  result.value.kind = "issue" <=> (r # None /\ r # EmptyStr /\ r \notin RoleSet)

\* C2, as stated, on units whose path is a string: the validator on path
\* reports a violation iff the role is unit-source and the suffix from the
\* last dot of the final path component is not .pxu
C2_ExtIssueIffLastDotSuffix ==
    CheckedBy("ext") /\ units[result.unit].path # None =>
        (result.value.kind = "issue" <=>
            /\ units[result.unit].role = unit_source
            /\ LastDotSuffix(units[result.unit].path) # PXU)

\* C2, amended: the validator on path reports a violation iff the role is
\* unit-source, the path is a string and the extension os.path.splitext gives
\* (leading dots of the final component start no extension) is not .pxu; a
\* violation is classified deprecated / advice
C2_ExtIssueIffSplitext ==
    CheckedBy("ext") =>
        /\ result.value.kind = "issue" <=>
              /\ units[result.unit].role = unit_source
              /\ units[result.unit].path # None
              /\ ~HasPxuExtension(units[result.unit].path)
        /\ result.value.kind = "issue" =>
              /\ result.value.problem = "deprecated"
              /\ result.value.severity = "advice"
              /\ result.value.field = "path"

\* a hidden file named .pxu, role unit-source: reported
C2_Witness ==
    /\ CheckedBy("ext")
    /\ units[result.unit].role = unit_source
    /\ units[result.unit].path = PXU
    /\ result.value.kind = "issue"

\* C3: explain() returns the message when it is non-empty, else the stock
\* message of the kind when there is one, else None; no field prefix, whatever
\* the unit and the field
C3_ExplainMessageStockOrNone ==
    result.op = "explain" =>
        /\ Truthy(result.message) => result.value = result.message
        /\ ~Truthy(result.message) /\ stock_msg(result.kind) # None =>
              result.value = stock_msg(result.kind)
        /\ ~Truthy(result.message) /\ stock_msg(result.kind) = None =>
              result.value = None

\* no message and no stock message: nothing is returned
C3_Witness ==
    /\ result.op = "explain"
    /\ result.message = EmptyStr
    /\ result.kind = "unknown-symbol"
    /\ result.value = None

DocumentedVocabulary ==
    {unit_source, legacy_whitelist, script, binary, data, i18n, manage_script,
     legal, docs, unknown, build, invalid, vcs, src}

DeclaredVocabulary ==
    {unit_source, legacy_whitelist, script, binary, data, i18n, manage_py,
     legal, docs, unknown, build, invalid, vcs, src}

\* C4, as stated: s is a member of the Role symbols iff s is one of the
\* fourteen documented identifiers, manage-script among them
C4_MemberIffDocumented ==
    result.op = "in" => (result.value <=> result.message \in DocumentedVocabulary)

\* C4, amended: s is a member of the Role symbols iff s is one of the
\* fourteen declared identifiers, where the management script's is manage.py
C4_MemberIffDeclared ==
    result.op = "in" => (result.value <=> result.message \in DeclaredVocabulary)

\* manage.py tests as a member
C4_Witness ==
    result.op = "in" /\ result.message = manage_py /\ result.value = TRUE

\* s.split(', '): the pieces of s between the occurrences of ', '
Split(s) ==
    LET starts == {1} \cup {i + 2 : i \in {j \in 1..(Len(s) - 1) : s[j] = "," /\ s[j + 1] = " "}}
        n == Cardinality(starts)
        nth(k) == CHOOSE i \in starts : Cardinality({j \in starts : j < i}) = k - 1
        last(k) == IF k = n THEN Len(s) ELSE nth(k + 1) - 3
    IN  [k \in 1..n |-> SubSeq(s, nth(k), last(k))]

ExpectedRoleMessage ==
    <<
      "v", "a", "l", "i", "d", " ", "v", "a", "l", "u", "e", "s",
      " ", "a", "r", "e", ":", " ", "b", "i", "n", "a", "r", "y",
      ",", " ", "b", "u", "i", "l", "d", ",", " ", "d", "a", "t",
      "a", ",", " ", "d", "o", "c", "s", ",", " ", "i", "1", "8",
      "n", ",", " ", "i", "n", "v", "a", "l", "i", "d", ",", " ",
      "l", "e", "g", "a", "c", "y", "-", "w", "h", "i", "t", "e",
      "l", "i", "s", "t", ",", " ", "l", "e", "g", "a", "l", ",",
      " ", "m", "a", "n", "a", "g", "e", ".", "p", "y", ",", " ",
      "s", "c", "r", "i", "p", "t", ",", " ", "s", "r", "c", ",",
      " ", "u", "n", "i", "t", "-", "s", "o", "u", "r", "c", "e",
      ",", " ", "u", "n", "k", "n", "o", "w", "n", ",", " ", "v",
      "c", "s">>

\* the text after the prefix lists each of syms once, ascending, ', ' between
ListsSortedOnce(m, syms) ==
    LET listed == Split(SubSeq(m, Len(Prefix) + 1, Len(m)))
    IN  /\ SubSeq(m, 1, Len(Prefix)) = Prefix
        /\ Len(listed) = Len(syms)
        /\ {listed[i] : i \in 1..Len(listed)} = {syms[i] : i \in 1..Len(syms)}
        /\ \A i \in 1..(Len(listed) - 1) : StrLess(listed[i], listed[i + 1])

\* C5: the message of the validator on role is 'valid values are: ' followed
\* by every Role symbol exactly once, ascending by identifier, separated by
\* ', '; it is fixed when the registry is defined and is the same text
\* whatever the unit and the offending role
C5_RoleMessageSortedOnce ==
    /\ result.op = "none" => ListsSortedOnce(registry["role"][1].message, symbols)
    /\ registry["role"][1].message = ExpectedRoleMessage
    /\ CheckedBy("role") /\ result.value.kind = "issue" =>
          result.value.message = ExpectedRoleMessage

\* an unknown role reported, with the symbols allocated in reverse order
C5_Witness ==
    /\ CheckedBy("role")
    /\ units[result.unit].role = bogus
    /\ result.value.kind = "issue"
    /\ symbols = Reverse(FileRole)

\* C6: no operation changes a unit's field values, the Role symbols or the
\* validator registry
C6_NothingMutated ==
    [][units' = units /\ symbols' = symbols /\ registry' = registry]_vars

\* an operation has run on a unit whose role is no symbol and the unit is as
\* constructed
C6_Witness ==
    /\ result.op = "role"
    /\ units[result.unit].role = bogus
    /\ units = created

\* C7: under every interleaving, a finished evaluation's outcome is the
\* outcome of that validator run alone on the unit as constructed
C7_OutcomeAsRunAlone ==
    \A c \in DOMAIN callers :
        callers[c].pc = "done" =>
            callers[c].outcome =
                check(registry[callers[c].field][1], symbols,
                      created[callers[c].unit], callers[c].field)

\* one caller has reported a violation on a unit another caller is in the
\* middle of validating
C7_Witness ==
    \E c1, c2 \in DOMAIN callers :
        /\ c1 # c2
        /\ callers[c1].pc = "done"
        /\ callers[c1].outcome.kind = "issue"
        /\ callers[c2].pc \in {"lookup", "correct_fn"}
        /\ callers[c2].unit = callers[c1].unit

\* C8: the outcome of an evaluation whose guard is not satisfied differs from
\* the outcome of one whose guard is satisfied and whose predicate holds
C8_InertDiffersFromPassed ==
    \A c1, c2 \in DOMAIN callers :
        /\ callers[c1].pc = "done"
        /\ callers[c2].pc = "done"
        /\ registry[callers[c1].field][1].onlyif
        /\ registry[callers[c2].field][1].onlyif
        /\ ~Applies(registry[callers[c1].field][1], units[callers[c1].unit])
        /\ Applies(registry[callers[c2].field][1], units[callers[c2].unit])
        /\ Correct(registry[callers[c2].field][1], symbols,
                   getattr(units[callers[c2].unit], callers[c2].field))
        => callers[c1].outcome # callers[c2].outcome

\* C9: evaluating a validator never raises: the result is no violation or a
\* violation
C9_NoFault ==
    result.op = "check" => result.value.kind \in {"none", "issue"}

IssuesOf(s) == {i \in 1..Len(s) : s[i].kind = "issue"}

\* C10: validating a unit over all its fields reports at most one violation:
\* the validators on path and on role never both report one
C10_AtMostOneIssue ==
    result.op = "check_all" => Cardinality(IssuesOf(result.value)) <= 1

\* the validator on path reports and the one on role does not
C10_Witness ==
    /\ result.op = "check_all"
    /\ Len(result.value) = 1
    /\ result.value[1].kind = "issue"
    /\ result.value[1].field = "path"

====
